---- MODULE Spec2Model ----
(***************************************************************************)
(* Model of bayesflow/benchmarks/gaussian_linear_uniform.py: the uniform   *)
(* prior, the Gaussian observation model and the default simulator, with   *)
(* the numpy operations they call (Generator.uniform, Generator.normal,    *)
(* np.transpose, ndarray.shape) modelled by what they compute.             *)
(*                                                                         *)
(* Numbers are binary floating-point values of a scaled-down IEEE format   *)
(* (MantBits bits of mantissa instead of 53, round to nearest, ties to     *)
(* even, gradual underflow, overflow to infinity).  A value is held as an  *)
(* integer count of the smallest positive number of the format.            *)
(* Arrays are records [shape, data] with data in C (row-major) order.      *)
(* A random source is the state of a linear congruential generator.        *)
(***************************************************************************)
EXTENDS Integers, Sequences, FiniteSets, TLC

(* ------------------------------ bounds --------------------------------- *)

\* bits of mantissa of the floating-point format (53 in binary64)
MantBits == 3
\* largest dimensionality D the prior is called with
MaxD == 2
\* largest replicate count n_obs
MaxNObs == 2
\* largest extent of one axis of a params array
MaxDim == 2

(* ------------------------- floating-point format ----------------------- *)

\* largest binary exponent; also the exponent of 1.0
EMax == 2 * MantBits
\* the number 1.0
One == 2 ^ EMax
\* largest finite number
MaxFloat == (2 ^ MantBits - 1) * 2 ^ EMax
\* positive infinity (the overflow result); -Inf is negative infinity
Inf == 2 ^ (MantBits + EMax)

Abs(x) == IF x < 0 THEN -x ELSE x

IsFinite(x) == Abs(x) < Inf

\* the binary exponent e >= from at which a/d < 2^MantBits * 2^e
RECURSIVE UlpExp(_, _, _)
UlpExp(a, d, from) ==
    IF a < (2 ^ (MantBits + from)) * d THEN from ELSE UlpExp(a, d, from + 1)

\* a/d (a >= 0, d > 0) rounded to the nearest number of the format, ties to even
RoundMag(a, d) ==
    LET step == 2 ^ UlpExp(a, d, 0)
        q    == a \div (d * step)
        r    == a % (d * step)
        k    == IF 2 * r > d * step THEN q + 1
                ELSE IF 2 * r < d * step THEN q
                ELSE q + (q % 2)
    IN  IF k * step > MaxFloat THEN Inf ELSE k * step

\* n/d (d > 0) rounded to the format
RoundF(n, d) == IF n < 0 THEN -RoundMag(-n, d) ELSE RoundMag(n, d)

\* x is a finite number of the format
IsFloat(x) == IsFinite(x) /\ RoundF(x, 1) = x

\* the finite numbers of the format
Floats == {x \in (-MaxFloat)..MaxFloat : IsFloat(x)}

\* the i-th non-negative number of the format, in increasing order from 0
NthFloat(i) ==
    IF i < 2 ^ MantBits THEN i
    ELSE (2 ^ (MantBits - 1) + (i % (2 ^ (MantBits - 1))))
             * 2 ^ ((i \div (2 ^ (MantBits - 1))) - 1)

\* a + b in floating point (no operand is infinite of opposite sign to the other)
FAdd(a, b) ==
    IF ~IsFinite(a) THEN a
    ELSE IF ~IsFinite(b) THEN b
    ELSE RoundF(a + b, 1)

\* a - b in floating point
FSub(a, b) == FAdd(a, -b)

\* a * b in floating point (finite operands)
FMul(a, b) == RoundF(a * b, One)

(* ------------------------------ arrays --------------------------------- *)

\* number of elements of an array of the given shape
RECURSIVE Prod(_)
Prod(shape) == IF shape = <<>> THEN 1 ELSE Head(shape) * Prod(Tail(shape))

\* the multi-index (0-based, one entry per axis) of the element at 0-based
\* position i of a C-ordered array of the given shape
RECURSIVE Unravel(_, _)
Unravel(i, shape) ==
    IF shape = <<>> THEN <<>>
    ELSE LET inner == Prod(Tail(shape))
         IN  <<i \div inner>> \o Unravel(i % inner, Tail(shape))

\* the 0-based position of the element with multi-index idx
RECURSIVE Ravel(_, _)
Ravel(idx, shape) ==
    IF shape = <<>> THEN 0
    ELSE Head(idx) * Prod(Tail(shape)) + Ravel(Tail(idx), Tail(shape))

\* (mutant) broadcasting that accepts only an operand of the output's shape
BroadcastsExact(inShape, outShape) == inShape = outShape

\* numpy broadcasting of an operand of shape inShape to the output shape
\* outShape: axes are aligned from the last one, and an operand axis must
\* have the output's extent or extent 1
BroadcastsTo(inShape, outShape) ==
    /\ Len(inShape) <= Len(outShape)
    /\ \A j \in 1..Len(inShape) :
          inShape[j] \in {1, outShape[j + Len(outShape) - Len(inShape)]}

\* the element of arr that broadcasting puts at 0-based position i of an
\* output of shape outShape
BroadcastAt(arr, outShape, i) ==
    LET off == Len(outShape) - Len(arr.shape)
        o   == Unravel(i, outShape)
        idx == [j \in 1..Len(arr.shape) |->
                   IF arr.shape[j] = 1 THEN 0 ELSE o[j + off]]
    IN  arr.data[Ravel(idx, arr.shape) + 1]

\* (mutant) the axes renamed without moving the data, as a reshape does
transpose_as_reshape(x, axes) ==
    [shape |-> [j \in 1..Len(axes) |-> x.shape[axes[j] + 1]], data |-> x.data]

\* np.transpose(x, axes): axis j of the result is axis axes[j] (0-based) of x
transpose(x, axes) ==
    LET shape == [j \in 1..Len(axes) |-> x.shape[axes[j] + 1]]
        src(i) == LET o == Unravel(i, shape)
                  IN  [a \in 1..Len(axes) |->
                         o[CHOOSE j \in 1..Len(axes) : axes[j] + 1 = a]]
    IN  [shape |-> shape,
         data  |-> [i \in 1..Prod(shape) |->
                       x.data[Ravel(src(i - 1), x.shape) + 1]]]

(* --------------------------- random source ----------------------------- *)

\* number of states of the generator
Modulus == 2 ^ MantBits
States == 0..(Modulus - 1)

\* one step of the generator (a full-period linear congruential generator,
\* as the state update of PCG64)
Step(s) == (5 * s + 3) % Modulus

\* the state after n draws
RECURSIVE Advance(_, _)
Advance(s, n) == IF n = 0 THEN s ELSE Advance(Step(s), n - 1)

\* the MantBits-bit integer a state outputs
Bits(s) == s \div (Modulus \div 2 ^ MantBits)

\* next_double: a uniform number of [0, 1), Bits(s) / 2^MantBits
next_double(s) == Bits(s) * (One \div 2 ^ MantBits)

\* random_standard_normal: a standard normal variate as a function of the
\* state (the ziggurat's table lookup abstracted to a symmetric grid over
\* [-2, 2))
standard_normal(s) == (Bits(s) - 2 ^ (MantBits - 1)) * (One \div 2 ^ (MantBits - 2))

\* (mutant) the draw scaled to the range but not shifted to lower
random_uniform_no_offset(s, lower, range) == FMul(range, next_double(s))

\* random_uniform(state, lower, range) = lower + range * next_double(state)
random_uniform(s, lower, range) == FAdd(lower, FMul(range, next_double(s)))

\* random_normal(state, loc, scale) = loc + scale * random_standard_normal(state)
random_normal(s, loc, scale) == FAdd(loc, FMul(scale, standard_normal(s)))

(* ------------------ outcomes of a call: return or raise ---------------- *)

NoArray == [shape |-> <<>>, data |-> <<>>]

\* the call returned value, leaving the source it drew from in state s after n draws
Return(value, s, n) ==
    [kind |-> "return", error |-> "", value |-> value, state |-> s, ndraws |-> n]

\* the call raised the exception err before drawing, with the source in state s
Raise(err, s) ==
    [kind |-> "raise", error |-> err, value |-> NoArray, state |-> s, ndraws |-> 0]

\* an absent size argument (size=None) and a given one
NoSize == [given |-> FALSE, shape |-> <<>>]
Size(shape) == [given |-> TRUE, shape |-> shape]

\* (mutant) one variate per element of loc, repeated along the broadcast axes
normal_tiled(loc, scale, size, s) ==
    LET outShape == IF size.given THEN size.shape ELSE loc.shape
        n        == Prod(loc.shape)
        drawn    == [shape |-> loc.shape,
                     data  |-> [i \in 1..n |->
                                  random_normal(Advance(s, i), loc.data[i], scale)]]
    IN  IF ~BroadcastsTo(loc.shape, outShape) THEN Raise("ValueError", s)
        ELSE Return([shape |-> outShape,
                     data  |-> [i \in 1..Prod(outShape) |->
                                  BroadcastAt(drawn, outShape, i - 1)]],
                    Advance(s, n), n)

\* Generator.normal(loc, scale, size) with an array loc and a scalar scale:
\* the output has the given size, or loc's shape when size is None; loc must
\* broadcast to it (ValueError otherwise, raised before any draw); the
\* elements are drawn one after the other in C order
normal(loc, scale, size, s) ==
    LET outShape == IF size.given THEN size.shape ELSE loc.shape
        n        == Prod(outShape)
    IN  IF ~BroadcastsTo(loc.shape, outShape) THEN Raise("ValueError", s)
        ELSE Return([shape |-> outShape,
                     data  |-> [i \in 1..n |->
                                  random_normal(Advance(s, i),
                                                BroadcastAt(loc, outShape, i - 1),
                                                scale)]],
                    Advance(s, n), n)

\* (mutant) a range that must be positive: ValueError on high = low
uniform_positive_range(low, high, size, s) ==
    LET range == FSub(high, low)
        n     == Prod(size)
    IN  IF ~IsFinite(range) THEN Raise("OverflowError", s)
        ELSE IF range <= 0 THEN Raise("ValueError", s)
        ELSE Return([shape |-> size,
                     data  |-> [i \in 1..n |->
                                  random_uniform(Advance(s, i), low, range)]],
                    Advance(s, n), n)

\* Generator.uniform(low, high, size) with scalar bounds low <= high:
\* OverflowError when high - low is not finite, else size draws of
\* low + (high - low) * next_double
uniform(low, high, size, s) ==
    LET range == FSub(high, low)
        n     == Prod(size)
    IN  IF ~IsFinite(range) THEN Raise("OverflowError", s)
        ELSE Return([shape |-> size,
                     data  |-> [i \in 1..n |->
                                  random_uniform(Advance(s, i), low, range)]],
                    Advance(s, n), n)

(* --------------------- gaussian_linear_uniform.py ---------------------- *)

\* an absent optional argument (None); a given n_obs is > 0 and a given rng
\* is the identity of a caller-held source
None == 0

\* default arguments
DefaultD == 10
DefaultLower == -One
DefaultUpper == One
\* 0.1 rounded to the format
DefaultScale == RoundF(One, 10)

\* prior(D, lower_bound, upper_bound, rng), drawing from a source in state s
prior(D, lower_bound, upper_bound, s) ==
    uniform(lower_bound, upper_bound, <<D>>, s)

\* (mutant) the replicates left on the first axis: no transpose
observation_model_untransposed(params, n_obs, scale, s) ==
    IF n_obs = None THEN normal(params, scale, NoSize, s)
    ELSE IF Len(params.shape) < 2 THEN Raise("IndexError", s)
    ELSE normal(params, scale, Size(<<n_obs, params.shape[1], params.shape[2]>>), s)

\* observation_model(params, n_obs, scale, rng), drawing from a source in state s
observation_model(params, n_obs, scale, s) ==
    IF n_obs = None THEN normal(params, scale, NoSize, s)
    ELSE IF Len(params.shape) < 2 THEN Raise("IndexError", s)
    ELSE LET x == normal(params, scale,
                         Size(<<n_obs, params.shape[1], params.shape[2]>>), s)
         IN  IF x.kind = "raise" THEN x
             ELSE [x EXCEPT !.value = transpose(x.value, <<1, 0, 2>>)]

\* (mutant) the observation model asked for one replicate, n_obs = 1
simulator_one_obs(s1, s2) ==
    LET prior_draws == prior(DefaultD, DefaultLower, DefaultUpper, s1)
        observables == observation_model(prior_draws.value, 1, DefaultScale, s2)
    IN  IF prior_draws.kind = "raise" THEN prior_draws
        ELSE IF observables.kind = "raise" THEN observables
        ELSE Return([parameters |-> prior_draws.value,
                     observables |-> observables.value],
                    observables.state,
                    prior_draws.ndraws + observables.ndraws)

\* simulator(): prior() and observation_model(prior_draws), each with a
\* source of its own, in states s1 and s2
simulator(s1, s2) ==
    LET prior_draws == prior(DefaultD, DefaultLower, DefaultUpper, s1)
        observables == observation_model(prior_draws.value, None, DefaultScale, s2)
    IN  IF prior_draws.kind = "raise" THEN prior_draws
        ELSE IF observables.kind = "raise" THEN observables
        ELSE Return([parameters |-> prior_draws.value,
                     observables |-> observables.value],
                    observables.state,
                    prior_draws.ndraws + observables.ndraws)

\* (mutant) a call without rng draws from a process-wide generator, the
\* caller's source 1
rng_or_global(rng, entropy, srcs) ==
    IF rng = None THEN srcs[1] ELSE srcs[rng]

\* "if rng is None: rng = np.random.default_rng()": the state of the source
\* the call draws from, the caller's source rng or a fresh source seeded
\* with the entropy the operating system supplies
rng_or_default(rng, entropy, srcs) ==
    IF rng = None THEN entropy ELSE srcs[rng]

\* (mutant) a call without rng advances a process-wide generator, the
\* caller's source 1
sources_after_shared(rng, srcs, s) ==
    IF rng = None THEN [srcs EXCEPT ![1] = s] ELSE [srcs EXCEPT ![rng] = s]

\* the caller-held sources after a call that left the source it drew from in
\* state s: the draws mutate the caller's generator object, and a fresh
\* source is dropped at return
sources_after(rng, srcs, s) ==
    IF rng = None THEN srcs ELSE [srcs EXCEPT ![rng] = s]

(* ----------------------------- the state ------------------------------- *)

VARIABLES
    sources,  \* the state of each caller-held random source
    last      \* the latest call: operation, arguments, source, outcome

vars == <<sources, last>>

\* the caller-held sources, and what a call can be given as rng
Sources == {1, 2}
Handles == {None} \cup Sources

\* no call yet
NoCall ==
    [op |-> "none", args |-> <<>>, rng |-> None, seen |-> 0,
     out |-> Raise("", 0), repeat |-> FALSE]

Init ==
    /\ sources = [r \in Sources |-> r]
    /\ last = NoCall

\* two calls have the same outcome: both return the same value or both
\* raise the same exception
SameOutcome(c1, c2) ==
    /\ c1.out.kind = c2.out.kind
    /\ c1.out.error = c2.out.error
    /\ c1.out.value = c2.out.value

\* two calls are of the same operation with the same arguments and the same
\* state of the random source(s) they draw from
SameCall(c1, c2) ==
    /\ c1.op = c2.op
    /\ c1.args = c2.args
    /\ c1.seen = c2.seen

\* a call of op with args and rng that saw the source it was given (or the
\* fresh one it made) in state seen, and ended with outcome out; repeat
\* records that the call before it was the same call
Called(op, args, rng, seen, out) ==
    /\ last' = [op |-> op, args |-> args, rng |-> rng, seen |-> seen, out |-> out,
                repeat |-> SameCall(last, [op |-> op, args |-> args, seen |-> seen])]
    /\ sources' = sources_after(rng, sources, out.state)

\* the entropy a call that is given rng can observe
EntropyFor(rng, Seeds) == IF rng = None THEN Seeds ELSE {0}

\* the state of the source a caller sees itself handing to a call
Seen(rng, entropy) == IF rng = None THEN entropy ELSE sources[rng]

PriorCall(Ds, Bounds, Rngs, Seeds) ==
    \E D \in Ds, b \in Bounds, rng \in Rngs :
      \E entropy \in EntropyFor(rng, Seeds) :
        Called("prior",
               [D |-> D, lower_bound |-> b[1], upper_bound |-> b[2]],
               rng, Seen(rng, entropy),
               prior(D, b[1], b[2], rng_or_default(rng, entropy, sources)))

ObservationModelCall(Params, NObs, Scales, Rngs, Seeds) ==
    \E params \in Params, n_obs \in NObs, scale \in Scales, rng \in Rngs :
      \E entropy \in EntropyFor(rng, Seeds) :
        Called("observation_model",
               [params |-> params, n_obs |-> n_obs, scale |-> scale],
               rng, Seen(rng, entropy),
               observation_model(params, n_obs, scale,
                                 rng_or_default(rng, entropy, sources)))

SimulatorCall(SeedPairs) ==
    \E e \in SeedPairs :
        Called("simulator", <<>>, None, e,
               simulator(rng_or_default(None, e[1], sources),
                         rng_or_default(None, e[2], sources)))

(* ------------------------------ inputs --------------------------------- *)

\* the shapes of rank 0 to 3 with extents 1..MaxDim
Shapes ==
    {<<>>} \cup UNION {[1..rank -> 1..MaxDim] : rank \in 1..3}

\* the position of One among the non-negative numbers of the format
OneIndex == 2 ^ (MantBits - 1) * (EMax - MantBits + 2)

\* the array of the given shape holding 1.0 and the numbers after it, in C order
Filled(shape) ==
    [shape |-> shape, data |-> [i \in 1..Prod(shape) |-> NthFloat(OneIndex + i - 1)]]

ParamInputs == {Filled(shape) : shape \in Shapes}
NObsInputs == {None} \cup 1..MaxNObs
ScaleInputs == {0, DefaultScale, One}

\* bounds lower <= upper of the prior
BoundFloats ==
    {x \in Floats : Abs(x) \in {0, MaxFloat} \/ (One \div 2 <= Abs(x) /\ Abs(x) <= 2 * One)}
BoundInputs == {b \in BoundFloats \X BoundFloats : b[1] <= b[2]}

\* inputs of the calls made in sequence
SeqSeeds == {1, Modulus - 1}
SeqSeedPairs == {<<1, 1>>, <<1, Modulus - 1>>}
SeqBounds == {<<DefaultLower, DefaultUpper>>}
SeqParams == {Filled(<<2>>), Filled(<<1, 2>>)}

(* -------------------------- specifications ----------------------------- *)

\* calls of the three operations in any order, by a caller that holds two
\* sources
Next ==
    \/ PriorCall({MaxD}, SeqBounds, Handles, SeqSeeds)
    \/ ObservationModelCall(SeqParams, {None, MaxNObs}, {DefaultScale}, Handles, SeqSeeds)
    \/ SimulatorCall(SeqSeedPairs)

Spec == Init /\ [][Next]_vars

\* any state of the caller's source 1, before a call
InitAny ==
    /\ sources \in {[r \in Sources |-> IF r = 1 THEN s ELSE r] : s \in States}
    /\ last = NoCall

\* one call of one operation, over its inputs: prior and observation_model
\* drawing from the caller's source 1, simulator from its fresh sources
NextOne ==
    /\ last.op = "none"
    /\ \/ PriorCall(1..MaxD, BoundInputs, {1}, {0})
       \/ ObservationModelCall(ParamInputs, NObsInputs, ScaleInputs, {1}, {0})
       \/ SimulatorCall(States \X States)

SpecOne == InitAny /\ [][NextOne]_vars

(* ------------------------------- claims -------------------------------- *)

\* the latest call, read by the properties below
ObsCalled == last.op = "observation_model"
PriorCalled == last.op = "prior"
Returned == last.out.kind = "return"
Rank == Len(last.args.params.shape)
\* n_obs or 1
Replicates == IF last.args.n_obs = None THEN 1 ELSE last.args.n_obs
\* element (n, j, d) of a result of shape (N, k, D), 0-based
At3(arr, n, j, d) ==
    arr.data[(n * arr.shape[2] + j) * arr.shape[3] + d + 1]
\* element (n, d) of params of shape (N, D), 0-based
At2(arr, n, d) == arr.data[n * arr.shape[2] + d + 1]

\* C1: for params of shape (N, D), observation_model returns an array of
\* shape (N, D) when n_obs is absent and of shape (N, n_obs, D) when it is
\* given: the replicate axis is the second axis
C1_OutputShape ==
    (ObsCalled /\ Rank = 2) =>
        /\ Returned
        /\ last.out.value.shape =
              IF last.args.n_obs = None THEN last.args.params.shape
              ELSE <<last.args.params.shape[1], last.args.n_obs,
                     last.args.params.shape[2]>>
        /\ Len(last.out.value.data) = Prod(last.out.value.shape)

\* C1 happens: two replicates of one parameter row of two features
C1_Witness ==
    /\ ObsCalled /\ Returned
    /\ last.args.params.shape = <<1, 2>>
    /\ last.args.n_obs = 2
    /\ last.out.value.shape = <<1, 2, 2>>

\* C2: observation_model returns, without raising, for params of rank 1,
\* with n_obs absent and with n_obs given
C2_AcceptsVector ==
    (ObsCalled /\ Rank = 1) => Returned

\* C3: with scale = 0 and n_obs given, element (n, j, d) of the result of
\* observation_model is params[n][d], for every row n, replicate j and
\* feature d, in every state of the random source
C3_CentredOnOwnRow ==
    (ObsCalled /\ Rank = 2 /\ last.args.n_obs # None /\ last.args.scale = 0) =>
        /\ Returned
        /\ \A n \in 0..(last.args.params.shape[1] - 1),
              j \in 0..(last.args.n_obs - 1),
              d \in 0..(last.args.params.shape[2] - 1) :
                At3(last.out.value, n, j, d) = At2(last.args.params, n, d)

\* C3 happens: two rows differing from each other, two replicates, no noise
C3_Witness ==
    /\ ObsCalled /\ Returned
    /\ last.args.params.shape = <<2, 2>>
    /\ last.args.n_obs = 2
    /\ last.args.scale = 0
    /\ At2(last.args.params, 0, 0) # At2(last.args.params, 1, 0)

\* C4 as stated: for lower_bound < upper_bound, prior returns a vector of
\* length D with every component c in lower_bound <= c < upper_bound
C4_HalfOpenInterval ==
    (PriorCalled /\ last.args.lower_bound < last.args.upper_bound) =>
        /\ Returned
        /\ last.out.value.shape = <<last.args.D>>
        /\ \A i \in 1..last.args.D :
              /\ last.args.lower_bound <= last.out.value.data[i]
              /\ last.out.value.data[i] < last.args.upper_bound

\* C4 as amended: for lower_bound < upper_bound, prior raises OverflowError
\* when upper_bound - lower_bound exceeds the largest finite number, and
\* else returns a vector of length D with every component c in
\* lower_bound <= c <= upper_bound
C4_ClosedInterval ==
    (PriorCalled /\ last.args.lower_bound < last.args.upper_bound) =>
        IF last.args.upper_bound - last.args.lower_bound
               >= MaxFloat + 2 ^ EMax \div 2
        THEN ~Returned /\ last.out.error = "OverflowError"
        ELSE /\ Returned
             /\ last.out.value.shape = <<last.args.D>>
             /\ Len(last.out.value.data) = last.args.D
             /\ \A i \in 1..last.args.D :
                   /\ last.args.lower_bound <= last.out.value.data[i]
                   /\ last.out.value.data[i] <= last.args.upper_bound

\* C4 happens at its edge: a component rounded up to upper_bound itself
C4_Witness ==
    /\ PriorCalled /\ Returned
    /\ last.args.lower_bound < last.args.upper_bound
    /\ \E i \in 1..last.args.D : last.out.value.data[i] = last.args.upper_bound

\* C5: simulator returns a record of exactly the fields "parameters" and
\* "observables"; parameters is the vector of length 10 that prior draws
\* with its defaults, and observables has the length of parameters
C5_SimulatorRecord ==
    (last.op = "simulator") =>
        /\ Returned
        /\ DOMAIN last.out.value = {"parameters", "observables"}
        /\ last.out.value.parameters.shape = <<10>>
        /\ Len(last.out.value.parameters.data) = 10
        /\ \A i \in 1..10 :
              /\ -One <= last.out.value.parameters.data[i]
              /\ last.out.value.parameters.data[i] <= One
        /\ last.out.value.observables.shape = last.out.value.parameters.shape
        /\ Len(last.out.value.observables.data) = Len(last.out.value.parameters.data)

\* C5 happens: a simulator call returned, having drawn 10 + 10 numbers
C5_Witness ==
    /\ last.op = "simulator" /\ Returned
    /\ last.out.ndraws = 20
    /\ last.out.value.observables.data # last.out.value.parameters.data

C7_DrawCount ==
    (ObsCalled /\ Rank = 2 /\ last.rng # None) =>
        LET n == last.args.params.shape[1] * Replicates * last.args.params.shape[2]
        IN  /\ last.out.ndraws = n
            /\ sources[last.rng] = Advance(last.seen, n)

\* C7 happens: replicates drawn from the caller's source, which moved on
C7_Witness ==
    /\ ObsCalled /\ Rank = 2 /\ last.rng = 1
    /\ last.args.n_obs = 2
    /\ last.out.ndraws = 2 * Prod(last.args.params.shape)
    /\ sources[1] # last.seen

\* C8: a call changes the state of no caller-held source but the one it was
\* given as rng; a call without rng changes none
C8_SourcesNotShared ==
    [][\A r \in Sources : r # last'.rng => sources'[r] = sources[r]]_vars

\* C8 happens: a simulator call drew its numbers and the caller's sources
\* are still in the states they started in
C8_Witness ==
    /\ last.op = "simulator" /\ last.rng = None
    /\ last.out.ndraws > 0
    /\ sources = [r \in Sources |-> r]

\* C9: with lower_bound = upper_bound = b, prior returns a vector of length
\* D with every component equal to b, in every state of the random source
C9_DegenerateBounds ==
    (PriorCalled /\ last.args.lower_bound = last.args.upper_bound) =>
        /\ Returned
        /\ last.out.value.shape = <<last.args.D>>
        /\ \A i \in 1..last.args.D : last.out.value.data[i] = last.args.lower_bound

\* C9 happens: both bounds 1.0, two components
C9_Witness ==
    /\ PriorCalled /\ Returned
    /\ last.args.lower_bound = One /\ last.args.upper_bound = One
    /\ last.args.D = 2

\* C10 as stated: observation_model with params of rank other than 1 and 2
\* raises and returns no array
C10_MalformedRaises ==
    (ObsCalled /\ Rank \notin {1, 2}) => ~Returned

\* C10 as amended: with params of rank 0 or 3, observation_model returns an
\* array of params' shape when n_obs is absent; with n_obs = k it raises
\* IndexError for rank 0, and for rank 3 and shape (a, b, c) it returns an
\* array of shape (a, k, b) when a is 1 or k, b is 1 or a and c is 1 or b,
\* and raises ValueError otherwise; a call that raises draws nothing
C10_MalformedOutcome ==
    (ObsCalled /\ Rank \notin {1, 2}) =>
        LET shape == last.args.params.shape
            k     == last.args.n_obs
        IN  IF k = None
            THEN Returned /\ last.out.value.shape = shape
            ELSE IF Rank = 0
            THEN ~Returned /\ last.out.error = "IndexError" /\ last.out.ndraws = 0
            ELSE IF shape[1] \in {1, k} /\ shape[2] \in {1, shape[1]}
                      /\ shape[3] \in {1, shape[2]}
            THEN Returned /\ last.out.value.shape = <<shape[1], k, shape[2]>>
            ELSE ~Returned /\ last.out.error = "ValueError" /\ last.out.ndraws = 0

\* C10 happens: params of rank 3 and n_obs given, and an array came back
C10_Witness ==
    /\ ObsCalled /\ Rank = 3 /\ last.args.n_obs # None
    /\ Returned
    /\ last.out.value.shape = <<1, last.args.n_obs, 1>>

====
